---------------------------- MODULE Spec2Model ----------------------------
(***************************************************************************)
(* The dashboard view (Home) of the trading-bot frontend: the refresh loop *)
(* loadData, the statistics computed by calculateMarketStats, the chart    *)
(* series built from the fetched trades, and the branch the view renders.  *)
(*                                                                         *)
(* One step of the model is one run-to-completion task of the browser's    *)
(* event loop: an event handler together with the re-render and the        *)
(* effects it causes, or the continuation of loadData after an await.      *)
(* Prices and volumes are whole numbers; the percentage is kept as an      *)
(* exact fraction. Instants are milliseconds counted from                  *)
(* 2023-12-30T00:00:00Z, which keeps them within the checker's integers.   *)
(***************************************************************************)
EXTENDS Integers, Sequences, FiniteSets, TLC

VARIABLES
    phase,           \* "new" (constructed), "mounted", "unmounted"
    selectedSymbol,  \* useState("XBTZAR")
    timeWindow,      \* useState("24h")
    priceData,       \* useState([]): the chart series
    livePrice,       \* useState(null)
    recentTrades,    \* useState([]): the raw trade list
    isLoading,       \* useState(true)
    error,           \* useState(null)
    marketStats,     \* useState({volume24h: 0, ...})
    isRefreshing,    \* useState(false)
    timers,          \* number of live setInterval timers of the view
    cycles,          \* the loadData calls made so far, in the order issued
    tradesFrom,      \* history: the cycle that last wrote recentTrades/priceData
    statsFrom,       \* history: the cycle that last wrote marketStats
    recentTradesView, \* the RecentTrades component of the analytics page
    priceChart,      \* the PriceChart component: its data prop, its state, the mouse
    labeledPoints,   \* AnalyticsPage: useState([])
    selectedLabels,  \* AnalyticsPage: useState([]), indexes of labeledPoints
    runningModel,    \* ModelsPage: useState(null)
    runs,            \* ModelsPage: the handleRunModel calls, each with its timeout
    modelCreationDialog \* the ModelCreationDialog component

vars == <<phase, selectedSymbol, timeWindow, priceData, livePrice, recentTrades,
          isLoading, error, marketStats, isRefreshing, timers, cycles,
          tradesFrom, statsFrom, recentTradesView, priceChart,
          labeledPoints, selectedLabels, runningModel, runs, modelCreationDialog>>

LabelVars == <<labeledPoints, selectedLabels>>

ModelsVars == <<runningModel, runs>>

\* the components other than the dashboard and RecentTrades
OtherViews == <<priceChart, LabelVars, ModelsVars, modelCreationDialog>>

---------------------------------------------------------------------------
(* Bounds of the model. *)

\* the number of loadData calls of one behaviour
MaxCycles == 3

\* the longest trade list a response carries in SpecStats
MaxLen == 3

\* the number of loadRecentTrades calls of one behaviour
MaxCalls == 2

\* the number of load cycles in flight at once in SpecFair
MaxOverlap == 2

\* the longest series the PriceChart is given
MaxPoints == 4

\* the number of points the user labels in the analytics page
MaxLabeled == 3

\* the number of handleRunModel calls of one behaviour
MaxRuns == 3

\* the number of createModel requests of one behaviour
MaxSubmits == 2

---------------------------------------------------------------------------
(* Values. *)

\* null where a string is expected, and where an object is expected
Null == "null"
NullObject == [null |-> TRUE]

\* two of the CURRENCY_PAIRS
Symbols == {"XBTZAR", "ETHZAR"}

\* the SelectItem values of the time-window select
TimeWindows == {"1h", "4h", "8h", "12h", "24h"}

\* the windows the user picks in Spec
PickedWindows == {"1h", "24h"}

ErrorMessage == "Failed to load market data. Please try again later."

\* the timestamps the backend sends: ISO strings
TimeStrings == {"2024-01-01T10:00:00Z", "2024-01-01T11:00:00Z",
                "2024-01-01T12:00:00Z"}

\* the numeric strings the backend sends for the price and the volume of a trade
PriceVolumeStrings == {<<"0", "1">>, <<"100", "1">>, <<"100", "2">>, <<"110", "1">>}

\* new Date(s).getTime() on the timestamps above
DateGetTime(s) ==
    CASE s = "2024-01-01T10:00:00Z" -> 208800000
      [] s = "2024-01-01T11:00:00Z" -> 212400000
      [] s = "2024-01-01T12:00:00Z" -> 216000000

\* new Date(s).toLocaleString() on the timestamps above (en-US, UTC)
ToLocaleString(s) ==
    CASE DateGetTime(s) = 208800000 -> "1/1/2024, 10:00:00 AM"
      [] DateGetTime(s) = 212400000 -> "1/1/2024, 11:00:00 AM"
      [] DateGetTime(s) = 216000000 -> "1/1/2024, 12:00:00 PM"

\* parseFloat(s) on the numeric strings above
ParseFloat(s) ==
    CASE s = "0" -> 0
      [] s = "1" -> 1
      [] s = "2" -> 2
      [] s = "100" -> 100
      [] s = "110" -> 110

Trade(t, p, v) == [timestamp |-> t, price |-> p, volume |-> v]

\* a trade of the response: {timestamp, price, volume} (is_buy is only displayed)
Trades == {Trade(t, pv[1], pv[2]) : t \in TimeStrings, pv \in PriceVolumeStrings}

\* every trade list of n trades
TradeLists(n) == [1..n -> Trades]

\* the trade lists the backend answers with in Spec
SampleTradeLists ==
    { <<>>,
      <<Trade("2024-01-01T11:00:00Z", "110", "1"),
        Trade("2024-01-01T10:00:00Z", "100", "2")>> }

\* the bodies of a 2xx answer of /api/prices/trades: with or without "trades"
TradeBodies(lists) == {[trades |-> l] : l \in lists} \cup {[detail |-> "none"]}

\* the bodies of a 2xx answer of /api/prices/live
LiveBodies == {[price |-> 110]}

\* What comes back for the fetch of /api/prices/trades: status 0 stands for a
\* transport failure (fetch itself rejects), otherwise the HTTP status and the
\* JSON body of the response.
TradeAnswers(lists) ==
    {[status |-> 200, body |-> b] : b \in TradeBodies(lists)}
    \cup {[status |-> 0, body |-> [detail |-> "none"]],
          [status |-> 500, body |-> [detail |-> "none"]],
          [status |-> 500, body |-> [trades |-> <<Trade("2024-01-01T12:00:00Z", "0", "1")>>]]}

\* response.ok
ResponseOk(status) == status \in 200..299

\* what fetch or fetchTradeData throws: a TypeError of fetch, or the Error
\* made from the status of a response that is not ok
FetchError == [name |-> "TypeError", status |-> 0]
ApiError(status) == [name |-> "Error", status |-> status]

\* only a transport failure throws: the status of the response is not looked at
ThrowsOnTransportOnly(answer) == answer.status = 0

\* fetchTradeData throws for this answer
FetchTradeDataThrows(answer) == answer.status = 0 \/ ~ResponseOk(answer.status)

\* what fetchTradeData throws for an answer it throws for
FetchTradeDataError(answer) ==
    IF answer.status = 0 THEN FetchError ELSE ApiError(answer.status)

\* an empty array taken for no array
HasSomeTrades(tradeResponse) ==
    "trades" \in DOMAIN tradeResponse /\ tradeResponse.trades # <<>>

\* tradeResponse && tradeResponse.trades: an array, empty or not, is truthy
HasTrades(tradeResponse) == "trades" \in DOMAIN tradeResponse

---------------------------------------------------------------------------
(* Array and number helpers of the language. *)

\* a sort that puts elements the comparator holds equal in reverse order
GoesBeforeTiesReversed(c, j, i) == c < 0 \/ (c = 0 /\ j > i)

\* element j of an array goes before element i in a stable sort by comparator
\* value c == Cmp(arr[j], arr[i])
GoesBefore(c, j, i) == c < 0 \/ (c = 0 /\ j < i)

\* Array.prototype.sort with the comparator given as the function cmp of two
\* elements, a stable sort: an element's place is one more than the number of
\* elements that go before it
ArraySort(arr, cmp) ==
    LET n == Len(arr)
        place == [i \in 1..n |->
                    1 + Cardinality({j \in 1..n : GoesBefore(cmp[arr[j], arr[i]], j, i)})]
                 \o <<>>
    IN [k \in 1..n |-> arr[CHOOSE i \in 1..n : place[i] = k]] \o <<>>

\* the sum of the different numbers of an array: equal numbers counted once
RECURSIVE SumSet(_)
SumSet(S) == IF S = {} THEN 0 ELSE LET x == CHOOSE x \in S : TRUE IN x + SumSet(S \ {x})

SumDistinct(s) == SumSet({s[i] : i \in 1..Len(s)})

\* reduce((sum, x) => sum + x, 0)
RECURSIVE SumSeq(_)
SumSeq(s) == IF s = <<>> THEN 0 ELSE SumSeq(SubSeq(s, 1, Len(s) - 1)) + s[Len(s)]

\* Math.max(...prices) and Math.min(...prices) of a non-empty array: the
\* arguments are folded from the left
RECURSIVE MathMax(_)
MathMax(prices) ==
    IF Len(prices) = 1 THEN prices[1]
    ELSE LET m == MathMax(SubSeq(prices, 1, Len(prices) - 1))
             x == prices[Len(prices)]
         IN IF x > m THEN x ELSE m

RECURSIVE MathMin(_)
MathMin(prices) ==
    IF Len(prices) = 1 THEN prices[1]
    ELSE LET m == MathMin(SubSeq(prices, 1, Len(prices) - 1))
             x == prices[Len(prices)]
         IN IF x < m THEN x ELSE m

RECURSIVE Gcd(_, _)
Gcd(a, b) == IF b = 0 THEN a ELSE Gcd(b, a % b)

Abs(x) == IF x < 0 THEN -x ELSE x

\* the numbers a division by zero yields
Infinity == [num |-> 1, den |-> 0]
MinusInfinity == [num |-> -1, den |-> 0]
NaN == [num |-> 0, den |-> 0]

\* (n / d) * 100 in JavaScript numbers: a fraction in lowest terms, or the
\* outcome of a division by zero
PercentOf(n, d) ==
    IF d = 0
    THEN (IF n > 0 THEN Infinity ELSE IF n < 0 THEN MinusInfinity ELSE NaN)
    ELSE LET g == Gcd(Abs(n * 100), Abs(d))
             s == IF d < 0 THEN -1 ELSE 1
         IN [num |-> (s * n * 100) \div g, den |-> (s * d) \div g]

---------------------------------------------------------------------------
(* calculateMarketStats and the chart series of loadData. *)

ZeroStats == [volume24h |-> 0, priceChange24h |-> 0,
              priceChangePercent24h |-> [num |-> 0, den |-> 1],
              high24h |-> 0, low24h |-> 0]

\* a comparator that orders nothing: the array stays as it was delivered
CompareNothing(a, b) == 0

\* a comparator that orders by price instead of by instant
CompareByPrice(a, b) == ParseFloat(a.price) - ParseFloat(b.price)

\* the comparator of calculateMarketStats: newest first
CompareNewestFirst(a, b) == DateGetTime(b.timestamp) - DateGetTime(a.timestamp)

\* the comparator of the chart series: oldest first
CompareOldestFirst(a, b) == DateGetTime(a.timestamp) - DateGetTime(b.timestamp)

\* the two comparators as the function values handed to sort
NewestFirst == [a \in Trades, b \in Trades |-> CompareNewestFirst(a, b)]
OldestFirst == [a \in Trades, b \in Trades |-> CompareOldestFirst(a, b)]

\* the price of the first element instead of the largest
FirstPrice(prices) == prices[1]

\* Math.max(...prices) as calculateMarketStats calls it
High24h(prices) == MathMax(prices)

\* Math.min(...prices) as calculateMarketStats calls it
Low24h(prices) == MathMin(prices)

\* the array after arr.sort(cmp): sorted in place
ArrayAfterSortInPlace(arr, cmp) == ArraySort(arr, cmp)

\* the array arr after [...arr].sort(cmp): the copy is sorted, arr is as it was
ArrayAfterSortOfCopy(arr, cmp) == arr

\* the array handed to calculateMarketStats, after the call
TradesAfterStats(trades) ==
    IF Len(trades) = 0 THEN trades ELSE ArrayAfterSortOfCopy(trades, NewestFirst)

\* the array the chart series was built from, after that
TradesAfterSeries(trades) == ArrayAfterSortOfCopy(trades, OldestFirst)

\* The argument of setMarketStats, or NullObject when calculateMarketStats
\* returns before it sets anything.
CalculateMarketStats(trades) ==
    IF Len(trades) = 0 THEN NullObject
    ELSE LET sortedTrades == ArraySort(trades, NewestFirst)
             n == Len(sortedTrades)
             volume24h == SumSeq([i \in 1..n |-> ParseFloat(sortedTrades[i].volume)])
             prices == [i \in 1..n |-> ParseFloat(sortedTrades[i].price)]
             latestPrice == ParseFloat(sortedTrades[1].price)
             earliestPrice == ParseFloat(sortedTrades[n].price)
             priceChange24h == latestPrice - earliestPrice
         IN [volume24h |-> volume24h,
             priceChange24h |-> priceChange24h,
             priceChangePercent24h |-> PercentOf(priceChange24h, earliestPrice),
             high24h |-> High24h(prices),
             low24h |-> Low24h(prices)]

\* chartData of loadData: the trades oldest first, each as a chart point
BuildChartData(trades) ==
    LET sortedTrades == ArraySort(trades, OldestFirst)
    IN [i \in 1..Len(sortedTrades) |->
           [time |-> ToLocaleString(sortedTrades[i].timestamp),
            price |-> ParseFloat(sortedTrades[i].price),
            volume |-> ParseFloat(sortedTrades[i].volume)]]

---------------------------------------------------------------------------
(* The window and the request of loadData. *)

\* new Date().getTime() at the first call of a behaviour: 2024-01-01T12:30:00Z
NowBase == 217800000

\* the period of the refresh timer, in ms
RefreshMs == 30000

\* the clock readings a loadData call may see
Nows == {NowBase}

\* the clock readings of SpecWindow: the first call and one timer period later
WindowNows == {NowBase, NowBase + RefreshMs}

\* parseInt(timeWindow.replace('h', ''))
ParseHours(w) ==
    CASE w = "1h" -> 1 [] w = "4h" -> 4 [] w = "8h" -> 8 [] w = "12h" -> 12 [] w = "24h" -> 24

\* every window as that many whole hours
MsOfWholeHours(hours) == hours * 60 * 60 * 1000

\* hoursToSubtract * 60 * 60 * 1000, with hoursToSubtract 23.98 for 24 hours
MsToSubtract(hours) == IF hours = 24 THEN 2398 * 36000 ELSE hours * 60 * 60 * 1000

\* pastTime.getTime() for a window and a clock reading
PastTime(w, now) == now - MsToSubtract(ParseHours(w))

Digit(d) ==
    CASE d = 0 -> "0" [] d = 1 -> "1" [] d = 2 -> "2" [] d = 3 -> "3" [] d = 4 -> "4"
      [] d = 5 -> "5" [] d = 6 -> "6" [] d = 7 -> "7" [] d = 8 -> "8" [] d = 9 -> "9"

\* Number.prototype.toString() of a whole number >= 0, as its characters
RECURSIVE NumberToString(_)
NumberToString(n) ==
    IF n < 10 THEN <<Digit(n)>> ELSE Append(NumberToString(n \div 10), Digit(n % 10))

\* the last k digits of a whole number >= 0, as characters
RECURSIVE PadDigits(_, _)
PadDigits(n, k) ==
    IF k = 0 THEN <<>> ELSE Append(PadDigits(n \div 10, k - 1), Digit(n % 10))

\* Instant 0 of the model, 2023-12-30T00:00:00Z, is 1703894400000 ms after the
\* epoch: EpochHigh * 10^8 + EpochLow
EpochHigh == 17038
EpochLow == 94400000
HundredMillion == 100000000

\* getTime().toString() of a Date: the decimal digits of its epoch milliseconds
GetTimeToString(t) ==
    LET low == EpochLow + t
    IN NumberToString(EpochHigh + low \div HundredMillion)
           \o PadDigits(low % HundredMillion, 8)

\* params.since of loadData: pastTime.getTime().toString()
SinceParam(w, now) == GetTimeToString(PastTime(w, now))

\* the calendar day of the model's day 0, 1, 2, 3, as toISOString writes it
IsoDate(day) ==
    CASE day = 0 -> <<"2", "0", "2", "3", "-", "1", "2", "-", "3", "0">>
      [] day = 1 -> <<"2", "0", "2", "3", "-", "1", "2", "-", "3", "1">>
      [] day = 2 -> <<"2", "0", "2", "4", "-", "0", "1", "-", "0", "1">>
      [] day = 3 -> <<"2", "0", "2", "4", "-", "0", "1", "-", "0", "2">>

\* Date.prototype.toISOString() of the instant t: YYYY-MM-DDTHH:mm:ss.sssZ
ToISOString(t) ==
    LET ms == t % 86400000
    IN IsoDate(t \div 86400000) \o <<"T">>
           \o PadDigits(ms \div 3600000, 2) \o <<":">>
           \o PadDigits((ms \div 60000) % 60, 2) \o <<":">>
           \o PadDigits((ms \div 1000) % 60, 2) \o <<".">>
           \o PadDigits(ms % 1000, 3) \o <<"Z">>

\* the query fetchTradeData sends for a symbol and loadData's params
TradeRequest(sym, since) ==
    [endpoint |-> "/api/prices/trades", symbol |-> sym, since |-> since]

\* the query fetchLivePrice sends
LiveRequest(sym) == [endpoint |-> "/api/prices/live", symbol |-> sym]

---------------------------------------------------------------------------
(* The values of the PriceChart component. *)

\* null, or the activeTooltipIndex of an event that has none
NoIndex == -1

\* the point of the minute k of a series
ChartPoint(k) == [time |-> k, price |-> 100 + k]

\* a series of n points that starts at the minute first
SeriesOf(first, n) == [i \in 1..n |-> ChartPoint(first + i - 1)]

\* the series the parent hands to the chart as its data prop
ChartSeries == {SeriesOf(first, n) : first \in {1, 2}, n \in 1..MaxPoints}

\* the indexes of an array
IndexesOf(arr) == 0..(Len(arr) - 1)

\* arr.slice(start, end)
ArraySlice(arr, start, end) ==
    SubSeq(arr, start + 1, IF end < Len(arr) THEN end ELSE Len(arr))

\* the chart before it is mounted; pressed, dragFrom and dragTo are the mouse:
\* the button is down, the index it went down at, the index it is over
PriceChartNew ==
    [mounted |-> FALSE, crashed |-> FALSE, data |-> <<>>, zoomData |-> <<>>,
     leftZoomIndex |-> NoIndex, rightZoomIndex |-> NoIndex, isRefreshing |-> FALSE,
     pressed |-> FALSE, dragFrom |-> NoIndex, dragTo |-> NoIndex]

\* the dialog as constructed, for a parent that hands it count labeled
\* points; requests and created count the createModel calls and the
\* onModelCreated calls made
ModelCreationDialogOf(count) ==
    [open |-> FALSE, isLoading |-> FALSE, name |-> "", error |-> Null,
     labeledPoints |-> count, pending |-> FALSE, requests |-> 0, created |-> 0]

ModelCreationDialogNew == ModelCreationDialogOf(0)

---------------------------------------------------------------------------
(* The view. *)

\* what the view holds of a fetched response
Displayed == [stats |-> marketStats, series |-> priceData, trades |-> recentTrades]

\* the branch of the conditional the view renders below the configuration panel
RenderBranch ==
    IF isLoading THEN "spinner" ELSE IF error # Null THEN "error" ELSE "data"

\* the requests a load cycle has put on the wire so far
RequestsOf(c) ==
    {TradeRequest(cycles[c].symbol, cycles[c].since)}
    \cup (IF cycles[c].pc = "trades" THEN {} ELSE {LiveRequest(cycles[c].symbol)})

InFlight == {c \in 1..Len(cycles) : cycles[c].pc \in {"trades", "live"}}
AwaitingTrades == {c \in 1..Len(cycles) : cycles[c].pc = "trades"}
AwaitingLive == {c \in 1..Len(cycles) : cycles[c].pc = "live"}
Finished == {c \in 1..Len(cycles) : cycles[c].pc \in {"success", "failed"}}

Init ==
    /\ phase = "new"
    /\ selectedSymbol = "XBTZAR"
    /\ timeWindow = "24h"
    /\ priceData = <<>>
    /\ livePrice = NullObject
    /\ recentTrades = <<>>
    /\ isLoading = TRUE
    /\ error = Null
    /\ marketStats = ZeroStats
    /\ isRefreshing = FALSE
    /\ timers = 0
    /\ cycles = <<>>
    /\ tradesFrom = 0
    /\ statsFrom = 0
    /\ recentTradesView = [mounted |-> FALSE, symbol |-> "XBTZAR", timeWindow |-> "24h",
                           isLoading |-> FALSE, trades |-> <<>>, calls |-> <<>>]
    /\ priceChart = PriceChartNew
    /\ labeledPoints = <<>>
    /\ selectedLabels = <<>>
    /\ runningModel = Null
    /\ runs = <<>>
    /\ modelCreationDialog = ModelCreationDialogNew

\* loadData of the first render called whatever the render: the selection of
\* the request is the initial one
LoadDataStartOfFirstRender(sym, w, now) ==
    /\ Len(cycles) < MaxCycles
    /\ isRefreshing' = TRUE
    /\ cycles' = Append(cycles, [symbol |-> "XBTZAR", window |-> "24h", now |-> now,
                                 since |-> SinceParam("24h", now),
                                 pc |-> "trades", thrown |-> NullObject,
                                 before |-> Displayed])

\* loadData up to its first await, called at clock reading now in a render
\* whose selection is (sym, w)
LoadDataStart(sym, w, now) ==
    /\ Len(cycles) < MaxCycles
    /\ isRefreshing' = TRUE
    /\ cycles' = Append(cycles, [symbol |-> sym, window |-> w, now |-> now,
                                 since |-> SinceParam(w, now),
                                 pc |-> "trades", thrown |-> NullObject,
                                 before |-> Displayed])

\* a finally block that leaves the spinner flag alone
LoadDataFinallyKeepsLoading ==
    /\ isRefreshing' = FALSE
    /\ UNCHANGED isLoading

\* the finally block of loadData
LoadDataFinally ==
    /\ isRefreshing' = FALSE
    /\ isLoading' = FALSE

\* the effect of [selectedSymbol, timeWindow] at mount
Mount(now) ==
    /\ phase = "new"
    /\ phase' = "mounted"
    /\ LoadDataStart(selectedSymbol, timeWindow, now)
    /\ timers' = timers + 1
    /\ UNCHANGED <<selectedSymbol, timeWindow, priceData, livePrice, recentTrades,
                   isLoading, error, marketStats, tradesFrom, statsFrom,
                   recentTradesView, OtherViews>>

\* handleSymbolChange, the re-render, the effect's cleanup and the effect
HandleSymbolChange(value, now) ==
    /\ phase = "mounted"
    /\ value # selectedSymbol
    /\ selectedSymbol' = value
    /\ isLoading' = TRUE
    /\ timers' = (timers - 1) + 1
    /\ LoadDataStart(value, timeWindow, now)
    /\ UNCHANGED <<phase, timeWindow, priceData, livePrice, recentTrades, error,
                   marketStats, tradesFrom, statsFrom,
                   recentTradesView, OtherViews>>

\* handleTimeWindowChange, the re-render, the effect's cleanup and the effect
HandleTimeWindowChange(value, now) ==
    /\ phase = "mounted"
    /\ value # timeWindow
    /\ timeWindow' = value
    /\ isLoading' = TRUE
    /\ timers' = (timers - 1) + 1
    /\ LoadDataStart(selectedSymbol, value, now)
    /\ UNCHANGED <<phase, selectedSymbol, priceData, livePrice, recentTrades, error,
                   marketStats, tradesFrom, statsFrom,
                   recentTradesView, OtherViews>>

\* handleRefresh: the button is disabled while isRefreshing
HandleRefresh(now) ==
    /\ phase = "mounted"
    /\ ~isRefreshing
    /\ LoadDataStart(selectedSymbol, timeWindow, now)
    /\ UNCHANGED <<phase, selectedSymbol, timeWindow, priceData, livePrice,
                   recentTrades, isLoading, error, marketStats, timers,
                   tradesFrom, statsFrom,
                   recentTradesView, OtherViews>>

\* the callback of setInterval
TimerTick(now) ==
    /\ timers > 0
    /\ LoadDataStart(selectedSymbol, timeWindow, now)
    /\ UNCHANGED <<phase, selectedSymbol, timeWindow, priceData, livePrice,
                   recentTrades, isLoading, error, marketStats, timers,
                   tradesFrom, statsFrom,
                   recentTradesView, OtherViews>>

\* the view discarded by an effect whose cleanup does not clear the interval
UnmountWithoutCleanup ==
    /\ phase = "mounted"
    /\ phase' = "unmounted"
    /\ UNCHANGED <<selectedSymbol, timeWindow, priceData, livePrice, recentTrades,
                   isLoading, error, marketStats, isRefreshing, cycles, timers,
                   tradesFrom, statsFrom,
                   recentTradesView, OtherViews>>

\* The effect's cleanup when the view is discarded. The continuations of the
\* cycles still in flight run later, but React drops every state update of an
\* unmounted view: nothing of the view changes any more, and the model does
\* not follow them.
Unmount ==
    /\ phase = "mounted"
    /\ phase' = "unmounted"
    /\ timers' = timers - 1
    /\ UNCHANGED <<selectedSymbol, timeWindow, priceData, livePrice, recentTrades,
                   isLoading, error, marketStats, isRefreshing, cycles,
                   tradesFrom, statsFrom,
                   recentTradesView, OtherViews>>

\* loadData from the resolved fetchTradeData to the await of fetchLivePrice.
\* setRecentTrades stores the array itself, so the list the view holds is the
\* array as calculateMarketStats and the construction of the series leave it.
TradesResolved(c, body) ==
    /\ phase = "mounted"
    /\ c \in AwaitingTrades
    /\ IF HasTrades(body)
       THEN LET trades == body.trades
                stats == CalculateMarketStats(trades)
                afterStats == TradesAfterStats(trades)
            IN /\ recentTrades' = TradesAfterSeries(afterStats)
               /\ IF stats = NullObject
                  THEN UNCHANGED <<marketStats, statsFrom>>
                  ELSE /\ marketStats' = stats
                       /\ statsFrom' = c
               /\ priceData' = BuildChartData(afterStats)
               /\ tradesFrom' = c
       ELSE UNCHANGED <<recentTrades, marketStats, statsFrom, priceData, tradesFrom>>
    /\ cycles' = [cycles EXCEPT ![c].pc = "live"]
    /\ UNCHANGED <<phase, selectedSymbol, timeWindow, livePrice, isLoading, error,
                   isRefreshing, timers,
                   recentTradesView, OtherViews>>

\* loadData's catch and finally after fetchTradeData throws err
TradesRejected(c, err) ==
    /\ phase = "mounted"
    /\ c \in AwaitingTrades
    /\ error' = ErrorMessage
    /\ LoadDataFinally
    /\ cycles' = [cycles EXCEPT ![c].pc = "failed", ![c].thrown = err,
                                ![c].before = NullObject]
    /\ UNCHANGED <<phase, selectedSymbol, timeWindow, priceData, livePrice,
                   recentTrades, marketStats, timers, tradesFrom, statsFrom,
                   recentTradesView, OtherViews>>

\* The continuation of fetchTradeData and of loadData when the answer of the
\* trade fetch arrives: fetchTradeData throws or returns the body, and
\* loadData goes on in its catch block or after its await.
TradesAnswered(c, answer) ==
    IF FetchTradeDataThrows(answer)
    THEN TradesRejected(c, FetchTradeDataError(answer))
    ELSE TradesResolved(c, answer.body)

\* loadData from the resolved fetchLivePrice to its end
LiveResolved(c, body) ==
    /\ phase = "mounted"
    /\ c \in AwaitingLive
    /\ livePrice' = body
    /\ LoadDataFinally
    /\ cycles' = [cycles EXCEPT ![c].pc = "success", ![c].before = NullObject]
    /\ UNCHANGED <<phase, selectedSymbol, timeWindow, priceData, recentTrades, error,
                   marketStats, timers, tradesFrom, statsFrom,
                   recentTradesView, OtherViews>>

\* loadData's catch and finally after fetchLivePrice rejects
LiveRejected(c) ==
    /\ phase = "mounted"
    /\ c \in AwaitingLive
    /\ error' = ErrorMessage
    /\ LoadDataFinally
    /\ cycles' = [cycles EXCEPT ![c].pc = "failed", ![c].thrown = FetchError,
                                ![c].before = NullObject]
    /\ UNCHANGED <<phase, selectedSymbol, timeWindow, priceData, livePrice,
                   recentTrades, marketStats, timers, tradesFrom, statsFrom,
                   recentTradesView, OtherViews>>

---------------------------------------------------------------------------
(* The RecentTrades component up to the await of its fetch. *)

\* hoursToSubtract * 60 * 60 * 1000 in loadRecentTrades
RecentTradesMsToSubtract(hours) ==
    IF hours = 24 THEN 2398 * 36000 ELSE hours * 60 * 60 * 1000

\* params.since of loadRecentTrades: pastTime.getTime().toString()
RecentTradesSince(w, now) ==
    GetTimeToString(now - RecentTradesMsToSubtract(ParseHours(w)))

\* loadRecentTrades up to its await, called at clock reading now in a render
\* whose state is view
LoadRecentTradesStart(view, now) ==
    [view EXCEPT !.isLoading = TRUE,
                 !.calls = Append(@, [symbol |-> view.symbol, window |-> view.timeWindow,
                                      now |-> now,
                                      since |-> RecentTradesSince(view.timeWindow, now)])]

HomeVars == <<phase, selectedSymbol, timeWindow, priceData, livePrice, recentTrades,
              isLoading, error, marketStats, isRefreshing, timers, cycles,
              tradesFrom, statsFrom>>

\* the effect of [symbol, timeWindow] at mount
RecentTradesMount(now) ==
    /\ ~recentTradesView.mounted
    /\ Len(recentTradesView.calls) < MaxCalls
    /\ recentTradesView' =
           LoadRecentTradesStart([recentTradesView EXCEPT !.mounted = TRUE], now)
    /\ UNCHANGED <<HomeVars, OtherViews>>

\* onChange of the select: setTimeWindow, the re-render and the effect
RecentTradesSetTimeWindow(value, now) ==
    /\ recentTradesView.mounted
    /\ value # recentTradesView.timeWindow
    /\ Len(recentTradesView.calls) < MaxCalls
    /\ recentTradesView' =
           LoadRecentTradesStart([recentTradesView EXCEPT !.timeWindow = value], now)
    /\ UNCHANGED <<HomeVars, OtherViews>>

---------------------------------------------------------------------------
(* The PriceChart component. *)

DashboardVars == <<HomeVars, recentTradesView>>

\* !e.activeTooltipIndex: true for an event without index and for the index 0
NotActiveTooltipIndex(idx) == idx = NoIndex \/ idx = 0

\* Math.min and Math.max of the two zoom indexes
StartIndex(chart) ==
    IF chart.leftZoomIndex < chart.rightZoomIndex
    THEN chart.leftZoomIndex ELSE chart.rightZoomIndex

EndIndex(chart) ==
    IF chart.leftZoomIndex > chart.rightZoomIndex
    THEN chart.leftZoomIndex ELSE chart.rightZoomIndex

\* the ReferenceArea is rendered: both zoom indexes are non-null
SelectionActive(chart) ==
    chart.leftZoomIndex # NoIndex /\ chart.rightZoomIndex # NoIndex

\* getAreaCoordinates in the render of the ReferenceArea reads .time of
\* data[startIndex] and data[endIndex]: a TypeError when one is undefined
RenderThrows(chart) ==
    /\ SelectionActive(chart)
    /\ \/ StartIndex(chart) \notin IndexesOf(chart.data)
       \/ EndIndex(chart) \notin IndexesOf(chart.data)

\* the chart after the render that follows a state change: an error thrown
\* while rendering takes the chart down
Rendered(chart) == [chart EXCEPT !.crashed = RenderThrows(chart)]

\* the chart can take an event
ChartLive == priceChart.mounted /\ ~priceChart.crashed

\* the first render: useState(data) and the effect of [data]
PriceChartMount(data) ==
    /\ ~priceChart.mounted
    /\ priceChart' = [priceChart EXCEPT !.mounted = TRUE, !.data = data,
                                        !.zoomData = data]
    /\ UNCHANGED <<DashboardVars, LabelVars, ModelsVars, modelCreationDialog>>

\* the parent renders the chart with another data prop: the render with the
\* new prop and the effect of [data], setZoomData(data)
DataReplaced(data) ==
    /\ ChartLive
    /\ data # priceChart.data
    /\ priceChart' = Rendered([priceChart EXCEPT !.data = data, !.zoomData = data])
    /\ UNCHANGED <<DashboardVars, LabelVars, ModelsVars, modelCreationDialog>>

\* handleChartMouseDown for an event over the index idx of the displayed
\* series, or over no point
HandleChartMouseDown(idx) ==
    /\ ChartLive
    /\ ~priceChart.pressed
    /\ idx \in IndexesOf(priceChart.zoomData) \cup {NoIndex}
    /\ LET mouse == [priceChart EXCEPT !.pressed = TRUE, !.dragFrom = idx,
                                       !.dragTo = idx]
       IN priceChart' =
              IF NotActiveTooltipIndex(idx) THEN mouse
              ELSE Rendered([mouse EXCEPT !.leftZoomIndex = idx,
                                          !.rightZoomIndex = NoIndex])
    /\ UNCHANGED <<DashboardVars, LabelVars, ModelsVars, modelCreationDialog>>

\* handleChartMouseMove
HandleChartMouseMove(idx) ==
    /\ ChartLive
    /\ idx \in IndexesOf(priceChart.zoomData) \cup {NoIndex}
    /\ LET mouse == IF priceChart.pressed
                    THEN [priceChart EXCEPT !.dragTo = idx] ELSE priceChart
       IN priceChart' =
              IF priceChart.leftZoomIndex = NoIndex \/ NotActiveTooltipIndex(idx)
              THEN mouse
              ELSE Rendered([mouse EXCEPT !.rightZoomIndex = idx])
    /\ UNCHANGED <<DashboardVars, LabelVars, ModelsVars, modelCreationDialog>>

\* handleChartMouseUp
HandleChartMouseUp ==
    /\ ChartLive
    /\ priceChart.pressed
    /\ LET mouse == [priceChart EXCEPT !.pressed = FALSE, !.dragFrom = NoIndex,
                                       !.dragTo = NoIndex,
                                       !.leftZoomIndex = NoIndex,
                                       !.rightZoomIndex = NoIndex]
           startIndex == StartIndex(priceChart)
           endIndex == EndIndex(priceChart)
       IN priceChart' =
              IF SelectionActive(priceChart) /\ startIndex # endIndex
              THEN [mouse EXCEPT !.zoomData =
                                     ArraySlice(priceChart.data, startIndex, endIndex + 1)]
              ELSE mouse
    /\ UNCHANGED <<DashboardVars, LabelVars, ModelsVars, modelCreationDialog>>

\* handleReset: the button is disabled while isRefreshing
HandleReset ==
    /\ ChartLive
    /\ ~priceChart.isRefreshing
    /\ priceChart' = [priceChart EXCEPT !.isRefreshing = TRUE,
                                        !.zoomData = priceChart.data]
    /\ UNCHANGED <<DashboardVars, LabelVars, ModelsVars, modelCreationDialog>>

\* the callback of handleReset's setTimeout
ResetTimeout ==
    /\ ChartLive
    /\ priceChart.isRefreshing
    /\ priceChart' = [priceChart EXCEPT !.isRefreshing = FALSE]
    /\ UNCHANGED <<DashboardVars, LabelVars, ModelsVars, modelCreationDialog>>

---------------------------------------------------------------------------
(* The labeled points of the analytics page. *)

ChartVars == <<DashboardVars, priceChart>>

\* the times of the chart points the user clicks
LabelTimes == 1..(MaxLabeled + 1)

\* arr.filter((_, i) => i !== index)
WithoutIndex(arr, index) ==
    [k \in 1..(Len(arr) - (IF index \in IndexesOf(arr) THEN 1 ELSE 0)) |->
        IF k <= index THEN arr[k] ELSE arr[k + 1]]

\* arr.filter(i => i !== index)
WithoutValue(arr, index) ==
    LET Differs(i) == i # index IN SelectSeq(arr, Differs)

\* arr.includes(index)
Includes(arr, index) == \E k \in 1..Len(arr) : arr[k] = index

\* handleChartClick in labeling mode on the chart point of time x
HandleChartClick(x) ==
    /\ Len(labeledPoints) < MaxLabeled
    /\ \A k \in 1..Len(labeledPoints) : labeledPoints[k].x # x
    /\ labeledPoints' = Append(labeledPoints, [x |-> x, y |-> 100 + x, label |-> "bullish"])
    /\ UNCHANGED <<selectedLabels, ChartVars, ModelsVars, modelCreationDialog>>

\* removePoint, from the button of the row index
RemovePoint(index) ==
    /\ index \in IndexesOf(labeledPoints)
    /\ labeledPoints' = WithoutIndex(labeledPoints, index)
    /\ selectedLabels' = WithoutValue(selectedLabels, index)
    /\ UNCHANGED <<ChartVars, ModelsVars, modelCreationDialog>>

\* toggleSelectLabel, from the checkbox of the row index
ToggleSelectLabel(index) ==
    /\ index \in IndexesOf(labeledPoints)
    /\ selectedLabels' = IF Includes(selectedLabels, index)
                         THEN WithoutValue(selectedLabels, index)
                         ELSE Append(selectedLabels, index)
    /\ UNCHANGED <<labeledPoints, ChartVars, ModelsVars, modelCreationDialog>>

\* onChange of the checkbox of the table head
ToggleSelectAll ==
    /\ selectedLabels' = IF Len(selectedLabels) = Len(labeledPoints)
                         THEN <<>>
                         ELSE [k \in 1..Len(labeledPoints) |-> k - 1]
    /\ UNCHANGED <<labeledPoints, ChartVars, ModelsVars, modelCreationDialog>>

\* onClick of Clear All: the button is disabled without points
ClearAll ==
    /\ Len(labeledPoints) # 0
    /\ labeledPoints' = <<>>
    /\ UNCHANGED <<selectedLabels, ChartVars, ModelsVars, modelCreationDialog>>

---------------------------------------------------------------------------
(* The model management page. *)

\* the ids of the sample models
ModelIds == {"model-1", "model-2", "model-3"}

\* the runs whose timeout has not fired
PendingRuns == {r \in 1..Len(runs) : runs[r].timer = "pending"}

\* handleRunModel: the Run button of a model is disabled while it is the
\* running model
HandleRunModel(modelId) ==
    /\ Len(runs) < MaxRuns
    /\ runningModel # modelId
    /\ runningModel' = modelId
    /\ runs' = Append(runs, [model |-> modelId, timer |-> "pending"])
    /\ UNCHANGED <<ChartVars, LabelVars, modelCreationDialog>>

\* onClick of Stop, shown while a model is running
StopModel ==
    /\ runningModel # Null
    /\ runningModel' = Null
    /\ UNCHANGED <<runs, ChartVars, LabelVars, modelCreationDialog>>

\* the callback of the setTimeout of run r: timeouts of one delay fire in the
\* order they were set
RunTimeout(r) ==
    /\ r \in PendingRuns
    /\ \A q \in PendingRuns : r <= q
    /\ runningModel' = Null
    /\ runs' = [runs EXCEPT ![r].timer = "fired"]
    /\ UNCHANGED <<ChartVars, LabelVars, modelCreationDialog>>

---------------------------------------------------------------------------
(* The ModelCreationDialog component. *)

\* the labeled points handleSubmit asks for
MinLabeledPoints == 5

\* the numbers of labeled points the parent hands to the dialog
LabeledCounts == {0, MinLabeledPoints - 1, MinLabeledPoints}

\* the values of the name input
ModelNames == {"", "m"}

NameRequired == "Model name is required"
PointsRequired == "At least 5 labeled points are required to create a model"
CreateFailed == "Failed to create model. Please try again."

\* what comes back for the POST of createModel: 0 stands for a transport failure
CreateStatuses == {0, 200, 500}

\* createModel throws for this answer
CreateModelThrows(status) == status = 0 \/ ~ResponseOk(status)

\* only an empty table of labeled points is refused
NoLabeledPoints(count) == count = 0

\* labeledPoints.length < 5
TooFewPoints(count) == count < MinLabeledPoints

DialogFrame == <<ChartVars, LabelVars, ModelsVars>>

\* the parent renders the dialog with another labeledPoints prop
DialogRendered(count) ==
    /\ count # modelCreationDialog.labeledPoints
    /\ modelCreationDialog' = [modelCreationDialog EXCEPT !.labeledPoints = count]
    /\ UNCHANGED DialogFrame

\* onOpenChange of the Dialog (the trigger, Escape, a click outside) and the
\* Cancel button: setOpen
SetOpen(value) ==
    /\ value # modelCreationDialog.open
    /\ modelCreationDialog' = [modelCreationDialog EXCEPT !.open = value]
    /\ UNCHANGED DialogFrame

\* onChange of the name input
SetName(value) ==
    /\ modelCreationDialog.open
    /\ value # modelCreationDialog.name
    /\ modelCreationDialog' = [modelCreationDialog EXCEPT !.name = value]
    /\ UNCHANGED DialogFrame

\* handleSubmit up to its await: the submit button is disabled while isLoading
HandleSubmit ==
    /\ modelCreationDialog.open
    /\ ~modelCreationDialog.isLoading
    /\ modelCreationDialog.requests < MaxSubmits
    /\ modelCreationDialog' =
           IF modelCreationDialog.name = ""
           THEN [modelCreationDialog EXCEPT !.error = NameRequired]
           ELSE IF TooFewPoints(modelCreationDialog.labeledPoints)
           THEN [modelCreationDialog EXCEPT !.error = PointsRequired]
           ELSE [modelCreationDialog EXCEPT !.isLoading = TRUE, !.error = Null,
                                            !.pending = TRUE, !.requests = @ + 1]
    /\ UNCHANGED DialogFrame

\* createModel's answer arrives: handleSubmit after its await, or its catch
\* block, and its finally block
CreateModelAnswered(status) ==
    /\ modelCreationDialog.pending
    /\ modelCreationDialog' =
           IF CreateModelThrows(status)
           THEN [modelCreationDialog EXCEPT !.error = CreateFailed,
                                            !.isLoading = FALSE, !.pending = FALSE]
           ELSE [modelCreationDialog EXCEPT !.open = FALSE, !.created = @ + 1,
                                            !.isLoading = FALSE, !.pending = FALSE]
    /\ UNCHANGED DialogFrame

---------------------------------------------------------------------------
(* The specifications. *)

Next ==
    \/ \E now \in Nows : Mount(now)
    \/ \E value \in Symbols, now \in Nows : HandleSymbolChange(value, now)
    \/ \E value \in PickedWindows, now \in Nows : HandleTimeWindowChange(value, now)
    \/ \E now \in Nows : HandleRefresh(now)
    \/ \E now \in Nows : TimerTick(now)
    \/ Unmount
    \/ \E c \in 1..MaxCycles, answer \in TradeAnswers(SampleTradeLists) :
           TradesAnswered(c, answer)
    \/ \E c \in 1..MaxCycles, body \in LiveBodies : LiveResolved(c, body)
    \/ \E c \in 1..MaxCycles : LiveRejected(c)

Spec == Init /\ [][Next]_vars

\* The view when every trigger arrives only after the cycle before it has
\* ended: no two load cycles overlap.
NextSeq ==
    \/ \E now \in Nows : Mount(now)
    \/ /\ InFlight = {}
       /\ \/ \E value \in Symbols, now \in Nows : HandleSymbolChange(value, now)
          \/ \E value \in PickedWindows, now \in Nows : HandleTimeWindowChange(value, now)
          \/ \E now \in Nows : HandleRefresh(now)
          \/ \E now \in Nows : TimerTick(now)
    \/ Unmount
    \/ \E c \in 1..MaxCycles, answer \in TradeAnswers(SampleTradeLists) :
           TradesAnswered(c, answer)
    \/ \E c \in 1..MaxCycles, body \in LiveBodies : LiveResolved(c, body)
    \/ \E c \in 1..MaxCycles : LiveRejected(c)

SpecSeq == Init /\ [][NextSeq]_vars

\* the answers of the trade fetch in SpecFair: a response with one trade, and
\* a transport failure
SettleAnswers ==
    {[status |-> 200, body |-> [trades |-> <<Trade("2024-01-01T11:00:00Z", "110", "1")>>]],
     [status |-> 0, body |-> [detail |-> "none"]]}

\* the answer of the trade fetch of cycle c arrives
TradeFetchSettles(c) ==
    \E answer \in SettleAnswers : TradesAnswered(c, answer)

\* the answer of the live-price fetch of cycle c arrives, or the fetch fails
LiveFetchSettles(c) ==
    \/ \E body \in LiveBodies : LiveResolved(c, body)
    \/ LiveRejected(c)

\* Every network request eventually resolves or rejects: the awaits of
\* loadData on fetchTradeData and on fetchLivePrice do not hang.
RequestsSettle ==
    \A c \in 1..MaxCycles :
        WF_vars(TradeFetchSettles(c)) /\ WF_vars(LiveFetchSettles(c))

\* The view with overlapping load cycles, at most MaxOverlap of them in flight
\* at once, when every request is answered in the end.
NextFair ==
    \/ \E now \in Nows : Mount(now)
    \/ /\ Cardinality(InFlight) < MaxOverlap
       /\ \/ \E value \in Symbols, now \in Nows : HandleSymbolChange(value, now)
          \/ \E value \in PickedWindows, now \in Nows : HandleTimeWindowChange(value, now)
          \/ \E now \in Nows : HandleRefresh(now)
          \/ \E now \in Nows : TimerTick(now)
    \/ Unmount
    \/ \E c \in 1..MaxCycles : TradeFetchSettles(c)
    \/ \E c \in 1..MaxCycles : LiveFetchSettles(c)

SpecFair == Init /\ [][NextFair]_vars /\ RequestsSettle

\* The first load cycle of the mounted view up to its await of the live price,
\* answered with any trade list of at most MaxLen trades.
NextStats ==
    \/ \E now \in Nows : Mount(now)
    \/ /\ AwaitingTrades # {}
       /\ \E n \in 0..MaxLen : \E list \in TradeLists(n) :
              TradesAnswered(1, [status |-> 200, body |-> [trades |-> list]])

SpecStats == Init /\ [][NextStats]_vars

\* The window of the requests: the dashboard and the RecentTrades component,
\* each mounted and then taken through the windows of its select, at two clock
\* readings. The two are independent components, so their steps interleave.
NextWindow ==
    \/ \E now \in WindowNows : Mount(now)
    \/ \E value \in TimeWindows, now \in WindowNows : HandleTimeWindowChange(value, now)
    \/ \E now \in WindowNows : RecentTradesMount(now)
    \/ \E value \in TimeWindows, now \in WindowNows : RecentTradesSetTimeWindow(value, now)

SpecWindow == Init /\ [][NextWindow]_vars

\* The PriceChart with one data prop for its life: mouse gestures and resets.
NextZoom ==
    \/ \E data \in ChartSeries : PriceChartMount(data)
    \/ \E idx \in IndexesOf(priceChart.zoomData) \cup {NoIndex} :
           HandleChartMouseDown(idx)
    \/ \E idx \in IndexesOf(priceChart.zoomData) \cup {NoIndex} :
           HandleChartMouseMove(idx)
    \/ HandleChartMouseUp
    \/ HandleReset
    \/ ResetTimeout

SpecZoom == Init /\ [][NextZoom]_vars

\* The PriceChart whose parent replaces the data prop at any moment.
NextChart ==
    \/ NextZoom
    \/ \E data \in ChartSeries : DataReplaced(data)

SpecChart == Init /\ [][NextChart]_vars

\* The table of labeled points of the analytics page.
NextLabels ==
    \/ \E x \in LabelTimes : HandleChartClick(x)
    \/ \E index \in 0..(MaxLabeled - 1) : RemovePoint(index)
    \/ \E index \in 0..(MaxLabeled - 1) : ToggleSelectLabel(index)
    \/ ToggleSelectAll
    \/ ClearAll

SpecLabels == Init /\ [][NextLabels]_vars

\* The model management page: runs, stops and the timeouts of the runs.
NextModels ==
    \/ \E modelId \in ModelIds : HandleRunModel(modelId)
    \/ StopModel
    \/ \E r \in 1..MaxRuns : RunTimeout(r)

SpecModels == Init /\ [][NextModels]_vars

\* The ModelCreationDialog: the form, its submission and createModel's answer.
NextDialog ==
    \/ \E count \in LabeledCounts : DialogRendered(count)
    \/ \E value \in BOOLEAN : SetOpen(value)
    \/ \E value \in ModelNames : SetName(value)
    \/ HandleSubmit
    \/ \E status \in CreateStatuses : CreateModelAnswered(status)

SpecDialog == Init /\ [][NextDialog]_vars

---------------------------------------------------------------------------
(* The refresh loop: ordering of responses, cancellation, failure. *)

\* what the view shows of the responses and of their failure
ViewData == <<marketStats, priceData, recentTrades, livePrice, error>>

\* cycle c writes its trade response, or its live price, to the view in this step
CommitsInStep(c) ==
    \/ cycles[c].pc = "trades" /\ cycles'[c].pc = "live" /\ tradesFrom' = c
    \/ cycles[c].pc = "live" /\ cycles'[c].pc = "success"

\* cycle c was issued for a selection that is no longer the current one
Superseded(c) ==
    cycles[c].symbol # selectedSymbol \/ cycles[c].window # timeWindow

\* C1: last request wins. Of two load cycles a and b of the view with a issued
\* before b, a never writes its result (trades, stats, series or live price)
\* to the view once b has been issued and has run to its end.
C1_LastRequestWins ==
    [][\A a \in 1..Len(cycles) :
          CommitsInStep(a) => \A b \in 1..Len(cycles) : b > a => b \notin Finished]_vars

\* C2: logical cancellation. When a load cycle that was issued for an earlier
\* selection resolves (its fetch succeeds or fails) after the symbol or the
\* window has changed, that step changes nothing of what the view shows.
C2_StaleResponseDiscarded ==
    [][\A c \in InFlight :
          (cycles'[c].pc # cycles[c].pc /\ Superseded(c)) => ViewData' = ViewData]_vars

\* C3: at most one trade fetch of the view is in flight in any state.
C3_OneFetchInFlight == Cardinality(AwaitingTrades) <= 1

\* C4: atomic swap. Once a cycle that committed a trade list has ended in
\* success, the stats the view holds stem from the same response as the trade
\* list and the chart series it holds.
C4_StatsFromSameResponse ==
    (tradesFrom # 0 /\ statsFrom # 0 /\ cycles[tradesFrom].pc = "success")
        => statsFrom = tradesFrom

\* C5: the step in which a load cycle ends in success leaves the error empty.
C5_SuccessClearsError ==
    [][\A c \in AwaitingLive : cycles'[c].pc = "success" => error' = Null]_vars

\* C6: when a load cycle ends in its failure branch, the stats, the chart
\* series and the trade list are what they were when the cycle started, and an
\* error message is recorded.
C6_FailurePreservesData ==
    [][\A c \in InFlight :
          cycles'[c].pc = "failed"
              => (Displayed' = cycles[c].before /\ error' = ErrorMessage)]_vars

\* C7: in every state of the mounted view in which an error is recorded and an
\* earlier cycle ended in success, the view renders the stats cards and the
\* chart (the data branch).
C7_ErrorBesideData ==
    ( /\ phase = "mounted"
      /\ error # Null
      /\ statsFrom # 0
      /\ \E c \in 1..Len(cycles) : cycles[c].pc = "success" )
        => RenderBranch = "data"

\* C8: the view never presents all-zero stats as the result of a fetch of the
\* current selection that returned zero trades.
C8_NoZeroFilledStats ==
    ~ ( /\ phase = "mounted"
        /\ RenderBranch = "data"
        /\ tradesFrom # 0
        /\ ~Superseded(tradesFrom)
        /\ recentTrades = <<>>
        /\ marketStats = ZeroStats )

---------------------------------------------------------------------------
(* calculateMarketStats as a function of the fetched list (SpecStats). *)

\* the permutations of 1..n
IndexPermutations(n) ==
    {g \in [1..n -> 1..n] : \A i, j \in 1..n : i # j => g[i] # g[j]}

\* every reordering of a list
Reorderings(seq) ==
    {[i \in 1..Len(seq) |-> seq[g[i]]] : g \in IndexPermutations(Len(seq))}

\* the view holds stats and a trade list that one response produced
StatsOfTradeList == statsFrom # 0 /\ statsFrom = tradesFrom

PricesOf(seq) == {ParseFloat(seq[i].price) : i \in 1..Len(seq)}

\* C9: the stats computed from any reordering of the fetched list (volume,
\* high, low, price change and its percentage) equal the stats the view holds,
\* for every list, lists whose trades share an instant included.
C9_OrderInvariant ==
    StatsOfTradeList =>
        \A p \in Reorderings(recentTrades) : CalculateMarketStats(p) = marketStats

\* C10: for every non-empty fetched list, high >= low, every price of the list
\* lies between low and high, and high and low are prices of the list.
C10_HighLowBounds ==
    StatsOfTradeList =>
        /\ marketStats.high24h >= marketStats.low24h
        /\ \A price \in PricesOf(recentTrades) :
               marketStats.low24h <= price /\ price <= marketStats.high24h
        /\ marketStats.high24h \in PricesOf(recentTrades)
        /\ marketStats.low24h \in PricesOf(recentTrades)

\* C10's case: stats of a list of three trades in which the first delivered
\* price is neither the largest nor the smallest, and the price change differs
\* from the spread between high and low
C10_Witness ==
    /\ StatsOfTradeList
    /\ Len(recentTrades) = 3
    /\ marketStats.high24h > marketStats.low24h
    /\ ParseFloat(recentTrades[1].price) \notin {marketStats.high24h, marketStats.low24h}
    /\ marketStats.priceChange24h # marketStats.high24h - marketStats.low24h

---------------------------------------------------------------------------
(* Price change, chart series and volume as functions of the list (SpecStats). *)

InstantAt(seq, i) == DateGetTime(seq[i].timestamp)

\* C11: for every non-empty fetched list, in whatever order it was delivered,
\* the price change is the price of a trade with the latest instant of the
\* list minus the price of another trade (the same one in a list of one) with
\* the earliest instant; the list of a trade at 10:00 for 100 and a trade at
\* 11:00 for 110 gives the change 10 and the percentage 10 in either order.
C11_PriceChangeChronological ==
    StatsOfTradeList =>
        LET n == Len(recentTrades)
        IN /\ \E latest, earliest \in 1..n :
                 /\ n > 1 => latest # earliest
                 /\ \A k \in 1..n :
                        /\ InstantAt(recentTrades, k) <= InstantAt(recentTrades, latest)
                        /\ InstantAt(recentTrades, earliest) <= InstantAt(recentTrades, k)
                 /\ marketStats.priceChange24h =
                        ParseFloat(recentTrades[latest].price)
                            - ParseFloat(recentTrades[earliest].price)
           /\ recentTrades \in Reorderings(<<Trade("2024-01-01T10:00:00Z", "100", "2"),
                                             Trade("2024-01-01T11:00:00Z", "110", "1")>>)
                  => /\ marketStats.priceChange24h = 10
                     /\ marketStats.priceChangePercent24h = [num |-> 10, den |-> 1]

\* C11's case: the trade at 10:00 for 100 and the trade at 11:00 for 110,
\* delivered oldest first, with the stats computed from them
C11_Witness ==
    /\ StatsOfTradeList
    /\ recentTrades = <<Trade("2024-01-01T10:00:00Z", "100", "2"),
                        Trade("2024-01-01T11:00:00Z", "110", "1")>>
    /\ marketStats.priceChange24h = 10

\* C12: the chart series has as many points as the fetched list has trades,
\* each point carries the time, price and volume of one trade of the list and
\* each trade its own point, and along the series the instants of the trades do
\* not decrease, in whatever order the list was delivered.
C12_SeriesSortedAscending ==
    tradesFrom # 0 =>
        /\ Len(priceData) = Len(recentTrades)
        /\ \E g \in IndexPermutations(Len(recentTrades)) :
               /\ \A i \in 1..Len(priceData) :
                      /\ priceData[i].time = ToLocaleString(recentTrades[g[i]].timestamp)
                      /\ priceData[i].price = ParseFloat(recentTrades[g[i]].price)
                      /\ priceData[i].volume = ParseFloat(recentTrades[g[i]].volume)
               /\ \A i \in 1..(Len(priceData) - 1) :
                      InstantAt(recentTrades, g[i]) <= InstantAt(recentTrades, g[i + 1])

\* C12's case: a series built from three trades of three instants that were
\* delivered newest first
C12_Witness ==
    /\ tradesFrom # 0
    /\ Len(recentTrades) = 3
    /\ InstantAt(recentTrades, 1) > InstantAt(recentTrades, 2)
    /\ InstantAt(recentTrades, 2) > InstantAt(recentTrades, 3)
    /\ priceData[1].price = ParseFloat(recentTrades[3].price)
    /\ priceData[1].price # priceData[3].price

\* the volumes of the trades at the places S of a list, added up
RECURSIVE VolumeOfPlaces(_, _)
VolumeOfPlaces(seq, S) ==
    IF S = {} THEN 0
    ELSE LET i == CHOOSE i \in S : TRUE
         IN ParseFloat(seq[i].volume) + VolumeOfPlaces(seq, S \ {i})

\* C20: for every non-empty fetched list the volume of the stats is the sum of
\* the volumes of the trades of the list, each place of the list counted once.
C20_VolumeIsPlainSum ==
    StatsOfTradeList =>
        marketStats.volume24h = VolumeOfPlaces(recentTrades, 1..Len(recentTrades))

\* C20's case: stats of a list of three trades in which one trade occurs twice
C20_Witness ==
    /\ StatsOfTradeList
    /\ Len(recentTrades) = 3
    /\ recentTrades[1] = recentTrades[3]
    /\ recentTrades[2].volume # recentTrades[1].volume
    /\ marketStats.volume24h = 4

---------------------------------------------------------------------------
(* The window and the request (SpecWindow, Spec). *)

\* the length of each window in ms: whole hours, and 23.98 hours for "24h"
WindowMs(w) ==
    CASE w = "1h" -> 3600000
      [] w = "4h" -> 14400000
      [] w = "8h" -> 28800000
      [] w = "12h" -> 43200000
      [] w = "24h" -> 86328000

C14_SinceIsIso8601 ==
    \A c \in 1..Len(cycles) :
        \E r \in RequestsOf(c) :
            /\ r.endpoint = "/api/prices/trades"
            /\ r.symbol = cycles[c].symbol
            /\ r.since = ToISOString(PastTime(cycles[c].window, cycles[c].now))

---------------------------------------------------------------------------
(* The outcome of the trade fetch (Spec). *)

\* an answer that is a transport failure or a response outside 200..299
FailureAnswers ==
    {answer \in TradeAnswers(SampleTradeLists) : answer.status < 200 \/ answer.status > 299}

\* C15: when the trade fetch of a load cycle meets a transport failure or a
\* response whose status is not 2xx, fetchTradeData throws (an error carrying
\* the status), the cycle ends in its failure branch with the error message
\* recorded, and nothing of that response is written to the trade list, the
\* stats or the series.
C15_FetchFailureIsError ==
    [][\A c \in AwaitingTrades : \A answer \in FailureAnswers :
          (cycles'[c].pc # "trades" /\ TradesAnswered(c, answer))
              => /\ cycles'[c].pc = "failed"
                 /\ cycles'[c].thrown.status = answer.status
                 /\ error' = ErrorMessage
                 /\ Displayed' = Displayed]_vars

\* C15's case: a cycle whose trade fetch was answered with status 500 has
\* failed, and the view still holds the trades of an earlier cycle
C15_Witness ==
    \E c \in 1..Len(cycles) :
        /\ cycles[c].pc = "failed"
        /\ cycles[c].thrown = ApiError(500)
        /\ error = ErrorMessage
        /\ tradesFrom \notin {0, c}
        /\ recentTrades # <<>>

\* C16: when the trade fetch of a load cycle is answered with status 200 and
\* an empty trade list, the cycle goes on on its success path (to the fetch of
\* the live price, nothing thrown), the step records no error, and the trade
\* list and the chart series of the view are empty after it.
C16_ZeroTradesIsSuccess ==
    [][\A c \in AwaitingTrades :
          (cycles'[c].pc # "trades"
               /\ TradesAnswered(c, [status |-> 200, body |-> [trades |-> <<>>]]))
              => /\ cycles'[c].pc = "live"
                 /\ cycles'[c].thrown = NullObject
                 /\ error' = error
                 /\ recentTrades' = <<>>
                 /\ priceData' = <<>>]_vars

\* C16's case: a cycle answered with zero trades has ended in success without
\* an error, and emptied a trade list and a series that an earlier cycle filled
C16_Witness ==
    \E c \in 1..Len(cycles) :
        /\ cycles[c].pc = "success"
        /\ tradesFrom = c
        /\ statsFrom \notin {0, c}
        /\ recentTrades = <<>>
        /\ priceData = <<>>
        /\ error = Null

---------------------------------------------------------------------------
(* The triggers of the refresh loop and its timer (Spec). *)

\* this step starts one load cycle, whose trade fetch is on the wire for the
\* selection the view has after the step
StartsFetchForSelection ==
    /\ Len(cycles') = Len(cycles) + 1
    /\ \A c \in 1..Len(cycles) : cycles'[c] = cycles[c]
    /\ LET started == cycles'[Len(cycles')]
       IN /\ started.pc = "trades"
          /\ started.symbol = selectedSymbol'
          /\ started.window = timeWindow'
          /\ TradeRequest(started.symbol, started.since)
                 = TradeRequest(selectedSymbol', SinceParam(timeWindow', started.now))

\* C17: the initial mount, every change of the symbol, every change of the
\* window, every manual refresh and every tick of the periodic timer starts
\* one load cycle whose trade fetch carries the symbol and the window selected
\* at that moment (the new ones, for a change); no cycle is started otherwise.
C17_TriggerFetchesSelection ==
    [][/\ (phase = "new" /\ phase' = "mounted") => StartsFetchForSelection
       /\ selectedSymbol' # selectedSymbol => StartsFetchForSelection
       /\ timeWindow' # timeWindow => StartsFetchForSelection
       /\ (\E now \in Nows : HandleRefresh(now)) => StartsFetchForSelection
       /\ (\E now \in Nows : TimerTick(now)) => StartsFetchForSelection
       /\ cycles' # cycles /\ Len(cycles') # Len(cycles) => StartsFetchForSelection]_vars

\* C17's case: after the mount the symbol and then the window were changed,
\* and each of the three triggers started a fetch for the selection of its moment
C17_Witness ==
    /\ Len(cycles) = 3
    /\ <<cycles[1].symbol, cycles[1].window>> = <<"XBTZAR", "24h">>
    /\ <<cycles[2].symbol, cycles[2].window>> = <<"ETHZAR", "24h">>
    /\ <<cycles[3].symbol, cycles[3].window>> = <<"ETHZAR", "1h">>
    /\ <<selectedSymbol, timeWindow>> = <<"ETHZAR", "1h">>

\* C17's case for the timer and the refresh button: after a change of the
\* symbol a third cycle was started without a change, for the new symbol
C17_WitnessTick ==
    /\ Len(cycles) = 3
    /\ <<cycles[2].symbol, cycles[2].window>> = <<"ETHZAR", "24h">>
    /\ <<cycles[3].symbol, cycles[3].window>> = <<"ETHZAR", "24h">>

\* C18: while the view is mounted exactly one periodic timer is active, also
\* after a change of the symbol or of the window and after a failed fetch;
\* before the mount and after the view is discarded there is none, and once
\* the view is discarded no load cycle is started any more.
C18_TimerOwnership ==
    /\ [](timers = IF phase = "mounted" THEN 1 ELSE 0)
    /\ [][phase = "unmounted" => cycles' = cycles]_vars

\* C18's case: the view was discarded after a change of the symbol and a
\* failed cycle, with room left for a further cycle, and no timer remains
C18_Witness ==
    /\ phase = "unmounted"
    /\ timers = 0
    /\ selectedSymbol = "ETHZAR"
    /\ Len(cycles) < MaxCycles
    /\ \E c \in 1..Len(cycles) : cycles[c].pc = "failed"

\* C18's case while mounted: one timer after a change of the symbol and of the
\* window and a failed cycle
C18_WitnessMounted ==
    /\ phase = "mounted"
    /\ timers = 1
    /\ <<selectedSymbol, timeWindow>> = <<"ETHZAR", "1h">>
    /\ \E c \in 1..Len(cycles) : cycles[c].pc = "failed"

---------------------------------------------------------------------------
(* Termination of the load cycles (SpecFair). *)

\* C19: when every request resolves or rejects in the end, every load cycle
\* started in the mounted view ends in success or in failure; the step that
\* ends it leaves both isRefreshing and isLoading false; and a mounted view
\* that shows the spinner (at mount, after a change of the symbol or of the
\* window) stops showing it. A view discarded meanwhile is out of the claim.
C19_CycleReturnsToIdle ==
    /\ \A c \in 1..MaxCycles :
           (c \in InFlight /\ phase = "mounted")
               ~> (c \in Finished \/ phase = "unmounted")
    /\ [][\A c \in InFlight :
              cycles'[c].pc \in {"success", "failed"}
                  => ~isRefreshing' /\ ~isLoading']_vars
    /\ (RenderBranch = "spinner" /\ phase = "mounted")
           ~> (RenderBranch # "spinner" \/ phase = "unmounted")

\* C19's case: the symbol and the window were changed while cycles were in
\* flight, every cycle has ended, one of them in failure, and the mounted view
\* shows no spinner and no refresh in progress
C19_Witness ==
    /\ phase = "mounted"
    /\ Len(cycles) = 3
    /\ <<selectedSymbol, timeWindow>> = <<"ETHZAR", "1h">>
    /\ InFlight = {}
    /\ cycles[1].pc = "failed"
    /\ cycles[3].pc = "success"
    /\ ~isLoading
    /\ ~isRefreshing

---------------------------------------------------------------------------
(* The percentage and the order of the series (SpecStats). *)

\* the places of a list whose trade has the earliest instant of the list
EarliestPlaces(seq) ==
    {i \in 1..Len(seq) : \A k \in 1..Len(seq) : InstantAt(seq, i) <= InstantAt(seq, k)}

\* what the percentage is for a single trade of price 0: latest price 0 and
\* earliest price 0
PercentOfZeroOverZero ==
    CalculateMarketStats(<<Trade("2024-01-01T10:00:00Z", "0", "1")>>).priceChangePercent24h

\* C21: for every non-empty fetched list the percentage is the price change
\* divided by the earliest price, times 100; and when the earliest price is 0
\* the percentage is one and the same outcome whatever the latest price is,
\* the outcome it has for the latest price 0.
C21_PercentAndDivisionByZero ==
    StatsOfTradeList =>
        LET firsts == EarliestPlaces(recentTrades)
            percent == marketStats.priceChangePercent24h
        IN /\ (\A e \in firsts : ParseFloat(recentTrades[e].price) # 0)
                  => \E e \in firsts :
                         /\ percent.den > 0
                         /\ percent.num * ParseFloat(recentTrades[e].price)
                                = marketStats.priceChange24h * 100 * percent.den
           /\ (\A e \in firsts : ParseFloat(recentTrades[e].price) = 0)
                  => percent = PercentOfZeroOverZero

\* the chart point of a trade
PointOf(trade) ==
    [time |-> ToLocaleString(trade.timestamp),
     price |-> ParseFloat(trade.price),
     volume |-> ParseFloat(trade.volume)]

\* C22: the chart series is the fetched list rearranged so that any two trades
\* of equal timestamp stand in the series in the order they have in the list.
C22_SeriesSortStable ==
    tradesFrom # 0 =>
        \E g \in IndexPermutations(Len(recentTrades)) :
            /\ \A i \in 1..Len(priceData) : priceData[i] = PointOf(recentTrades[g[i]])
            /\ \A i, j \in 1..Len(priceData) :
                   (i < j /\ recentTrades[g[i]].timestamp = recentTrades[g[j]].timestamp)
                       => g[i] < g[j]

\* C22's case: the first and the third trade delivered share a timestamp and
\* differ in price, the second is older, and the series holds the second,
\* then the first, then the third
C22_Witness ==
    /\ tradesFrom # 0
    /\ Len(recentTrades) = 3
    /\ recentTrades[1].timestamp = recentTrades[3].timestamp
    /\ recentTrades[1].price # recentTrades[3].price
    /\ InstantAt(recentTrades, 2) < InstantAt(recentTrades, 1)
    /\ priceData = <<PointOf(recentTrades[2]), PointOf(recentTrades[1]),
                     PointOf(recentTrades[3])>>

\* C23: when a load cycle commits a fetched trade list, the list the view
\* holds for the Recent Trades table afterwards has the elements of the
\* delivered list in the delivered order: calculateMarketStats and the
\* construction of the series have not rearranged it.
C23_InputNotMutated ==
    [][\A c \in AwaitingTrades :
          cycles'[c].pc # "trades" =>
              LET held == recentTrades'
              IN \A list \in Reorderings(held) :
                     TradesAnswered(c, [status |-> 200, body |-> [trades |-> list]])
                         => held = list]_vars

\* C23's case: a list of three trades delivered neither oldest first nor
\* newest first is held as delivered, beside a series that is oldest first
C23_Witness ==
    /\ tradesFrom # 0
    /\ Len(recentTrades) = 3
    /\ InstantAt(recentTrades, 1) > InstantAt(recentTrades, 3)
    /\ InstantAt(recentTrades, 3) > InstantAt(recentTrades, 2)
    /\ priceData = <<PointOf(recentTrades[2]), PointOf(recentTrades[3]),
                     PointOf(recentTrades[1])>>

---------------------------------------------------------------------------
(* The refreshing flag (Spec). *)

\* C24: in every state of the mounted view in which a load cycle is in flight,
\* whatever started it, isRefreshing is true (and the Refresh button disabled).
C24_RefreshingWhileInFlight ==
    (phase = "mounted" /\ InFlight # {}) => isRefreshing

---------------------------------------------------------------------------
(* The zoom of the PriceChart (SpecZoom, SpecChart). *)

\* C25: when the mouse button went down over the displayed index i, moved to
\* the displayed index j # i and is released, the displayed series becomes
\* the points at the positions min(i, j)..max(i, j) of the series displayed
\* during the drag, whether that series was the whole data or a zoom of it.
C25_ZoomShowsSelection ==
    [][(/\ ChartLive
        /\ priceChart.pressed /\ ~priceChart'.pressed
        /\ priceChart.dragFrom # NoIndex /\ priceChart.dragTo # NoIndex
        /\ priceChart.dragFrom # priceChart.dragTo)
           => LET i == priceChart.dragFrom
                  j == priceChart.dragTo
                  lo == IF i < j THEN i ELSE j
                  hi == IF i < j THEN j ELSE i
              IN priceChart'.zoomData = SubSeq(priceChart.zoomData, lo + 1, hi + 1)]_vars

\* C26: a mouse-down over any index of the displayed series makes that index
\* the start of the selection, and a mouse-move over any index of the
\* displayed series while the button is down after such a mouse-down makes
\* that index the end of the selection; the index 0 is no exception.
C26_EveryIndexSelectable ==
    [][\A idx \in IndexesOf(priceChart.zoomData) :
          /\ HandleChartMouseDown(idx) => priceChart'.leftZoomIndex = idx
          /\ (HandleChartMouseMove(idx) /\ priceChart.pressed
                 /\ priceChart.dragFrom # NoIndex)
                => priceChart'.rightZoomIndex = idx]_vars

\* C27: whenever both zoom indexes are non-null, both are indexes of the
\* current data prop, and the render of the selection rectangle has not
\* thrown, also when the parent replaced the data during the selection.
C27_SelectionWithinData ==
    /\ ~priceChart.crashed
    /\ SelectionActive(priceChart) =>
           /\ priceChart.leftZoomIndex \in IndexesOf(priceChart.data)
           /\ priceChart.rightZoomIndex \in IndexesOf(priceChart.data)

---------------------------------------------------------------------------
(* The selection of labeled points (SpecLabels). *)

\* the labeled points the indexes of selectedLabels designate
SelectedPoints ==
    {labeledPoints[selectedLabels[k] + 1] :
        k \in {k \in 1..Len(selectedLabels) : selectedLabels[k] \in IndexesOf(labeledPoints)}}

\* the labeled points of the table
TablePoints == {labeledPoints[k] : k \in 1..Len(labeledPoints)}

\* C28: every index in selectedLabels is an index of labeledPoints; and a step
\* that adds a point, removes one or clears the table leaves selected exactly
\* the points that were selected before and are still in the table.
C28_SelectionFollowsPoints ==
    /\ [](\A k \in 1..Len(selectedLabels) :
              selectedLabels[k] \in IndexesOf(labeledPoints))
    /\ [][labeledPoints' # labeledPoints =>
              SelectedPoints' = SelectedPoints \cap TablePoints']_vars

---------------------------------------------------------------------------
(* The running model (SpecModels). *)

\* C29: when the timeout of a run fires while a later-started run is the
\* running one (the running model is the model of the latest run, whose own
\* timeout has not fired), the running model stays what it is.
C29_EarlierTimerKeepsLaterRun ==
    [][\A r \in 1..Len(runs) :
          (/\ runs[r].timer = "pending" /\ runs'[r].timer = "fired"
           /\ r < Len(runs)
           /\ runs[Len(runs)].timer = "pending"
           /\ runningModel = runs[Len(runs)].model)
              => runningModel' = runningModel]_vars

---------------------------------------------------------------------------
(* The submission of the ModelCreationDialog (SpecDialog). *)

\* C30: a createModel request is sent only by a submit with a non-empty name
\* and at least 5 labeled points; a submit that fails the validation sends
\* nothing and sets an error message; when createModel's answer is a failure
\* the dialog is not closed, an error message is set and onModelCreated is not
\* called; and whenever the answer of a request has arrived isLoading is false.
C30_SubmitContract ==
    [][LET dialog == modelCreationDialog
           after == modelCreationDialog'
       IN /\ after.requests # dialog.requests
                => dialog.name # "" /\ dialog.labeledPoints >= 5
          /\ (HandleSubmit /\ (dialog.name = "" \/ dialog.labeledPoints < 5))
                => /\ after.requests = dialog.requests
                   /\ ~after.pending
                   /\ after.error \in {NameRequired, PointsRequired}
          /\ \A status \in {0, 500} :
                 CreateModelAnswered(status)
                     => /\ after.open = dialog.open
                        /\ after.error = CreateFailed
                        /\ after.created = dialog.created
          /\ (dialog.pending /\ ~after.pending) => ~after.isLoading]_vars

\* C30's case: a request was sent for a named model with 5 labeled points,
\* createModel failed, and the dialog is open with the failure message
C30_Witness ==
    /\ modelCreationDialog.requests = 1
    /\ ~modelCreationDialog.pending
    /\ modelCreationDialog.open
    /\ modelCreationDialog.error = CreateFailed
    /\ modelCreationDialog.created = 0
    /\ modelCreationDialog.labeledPoints = 5
    /\ ~modelCreationDialog.isLoading

=============================================================================
